---- MODULE Spec2Model ----
(***************************************************************************)
(* BranchWeaver (src/branchweaver_app.py): the story graph (Story / Node / *)
(* Choice), its mutation functions, the JSON codec, AI-batch ingestion and *)
(* the playback state kept in st.session_state.ui.                         *)
(*                                                                         *)
(* One step of the model is one Streamlit script run: the widget event the *)
(* user triggers, the handler of that event, and the rest of the script    *)
(* (or, when the handler calls st.rerun(), the complete run that follows). *)
(* A widget returns the value the script passes to it unless the user      *)
(* changes it in that run; the sidebar, the node-details form, the         *)
(* generators and the world-state tab are left out.                        *)
(***************************************************************************)
EXTENDS Integers, Sequences, FiniteSets, TLC

VARIABLES
    story,          \* st.session_state.story
    ui,             \* st.session_state.ui (selected_node_id, playback_*)
    has_imported,   \* st.session_state.has_imported
    up,             \* the file in the "import_json" uploader, or None
    minted,         \* how many ids _new_id() has handed out
    last,           \* the event handled by the latest script run
    probe           \* bookkeeping of a Choose^k ; StepBack^k experiment

vars == <<story, ui, has_imported, up, minted, last, probe>>

----------------------------------------------------------------------------
(* Bounds *)

MaxIds == 2       \* ids _new_id() may hand out in one behaviour
MaxChoices == 2   \* choices a story may hold before "Add Choice" is disabled
MaxHistory == 3   \* playback_history entries before "Choose" is disabled

----------------------------------------------------------------------------
(* Python values *)

None == "<None>"                 \* Python's None
Falsy(x) == x = None \/ x = ""   \* "not x" for x a str or None

\* uuid4 strings: the k-th id handed out
Id(k) == "id" \o ToString(k)

\* an id source that numbers a new node after the nodes the story has now
reused_id == Id(Cardinality(DOMAIN story.nodes) + 1)

_new_id == Id(minted + 1)

\* str.strip() on the strings the model feeds it
strip(s) == CASE s = " " -> ""
              [] s = " Hall " -> "Hall"
              [] s = " Gate " -> "Gate"
              [] OTHER -> s

Choice(text, target_id, tags, gate) ==
    [text |-> text, target_id |-> target_id, tags |-> tags, gate |-> gate]

Node(id, title, text, npc, location, emotion, tags, gm_notes, choices) ==
    [id |-> id, title |-> title, text |-> text, npc |-> npc,
     location |-> location, emotion |-> emotion, tags |-> tags,
     gm_notes |-> gm_notes, choices |-> choices]

\* A Story; its nodes dict is the function `nodes` plus the insertion order
\* of its keys, `order` (Python dicts iterate in insertion order).
Story(title, description, nodes, order, start_node_id) ==
    [title |-> title, description |-> description, nodes |-> nodes,
     order |-> order, start_node_id |-> start_node_id]

\* d[k] = v on an insertion-ordered dict
DictSet(nodes, order, k, v) ==
    [nodes |-> [x \in (DOMAIN nodes) \cup {k} |-> IF x = k THEN v ELSE nodes[x]],
     order |-> IF k \in DOMAIN nodes THEN order ELSE Append(order, k)]

\* d.get(k, default) on a JSON object
Get(d, k, default) == IF k \in DOMAIN d THEN d[k] ELSE default

----------------------------------------------------------------------------
(* Graph mutation functions *)

\* an add_node that makes every new node the start node
add_node_always_start(s, nid, a) ==
    LET node == Node(nid,
                     IF strip(a.title) = "" THEN "(untitled)" ELSE strip(a.title),
                     strip(a.text), strip(a.npc), strip(a.location),
                     strip(a.emotion),
                     SelectSeq([i \in DOMAIN a.tags |-> strip(a.tags[i])],
                               LAMBDA t : t # ""),
                     strip(a.gm_notes), <<>>)
        d == DictSet(s.nodes, s.order, nid, node)
    IN  [s EXCEPT !.nodes = d.nodes, !.order = d.order, !.start_node_id = nid]

\* add_node(story, title=..., text=..., ...) with nid the id _new_id() returns
add_node(s, nid, a) ==
    LET node == Node(nid,
                     IF strip(a.title) = "" THEN "(untitled)" ELSE strip(a.title),
                     strip(a.text), strip(a.npc), strip(a.location),
                     strip(a.emotion),
                     SelectSeq([i \in DOMAIN a.tags |-> strip(a.tags[i])],
                               LAMBDA t : t # ""),
                     strip(a.gm_notes), <<>>)
        d == DictSet(s.nodes, s.order, nid, node)
    IN  [s EXCEPT !.nodes = d.nodes, !.order = d.order,
                  !.start_node_id = IF Falsy(@) THEN nid ELSE @]

\* next(iter(story.nodes.keys()), None)
FirstKey(order) == IF order = <<>> THEN None ELSE order[1]

\* a delete_node that never touches start_node_id
delete_node_keeps_start(s, node_id) ==
    IF node_id \in DOMAIN s.nodes
    THEN LET filtered == [k \in DOMAIN s.nodes |->
                            [s.nodes[k] EXCEPT !.choices =
                                SelectSeq(@, LAMBDA c : c.target_id # node_id)]]
         IN  [s EXCEPT !.nodes = [k \in (DOMAIN filtered) \ {node_id} |-> filtered[k]],
                       !.order = SelectSeq(s.order, LAMBDA k : k # node_id)]
    ELSE s

\* a delete_node that leaves the choices of the other nodes alone
delete_node_keeps_choices(s, node_id) ==
    IF node_id \in DOMAIN s.nodes
    THEN LET order2 == SelectSeq(s.order, LAMBDA k : k # node_id)
         IN  [s EXCEPT !.nodes = [k \in (DOMAIN s.nodes) \ {node_id} |-> s.nodes[k]],
                       !.order = order2,
                       !.start_node_id = IF @ = node_id THEN FirstKey(order2) ELSE @]
    ELSE s

\* a delete_node that hands a deleted start node's role to the last key
delete_node_last_key(s, node_id) ==
    IF node_id \in DOMAIN s.nodes
    THEN LET filtered == [k \in DOMAIN s.nodes |->
                            [s.nodes[k] EXCEPT !.choices =
                                SelectSeq(@, LAMBDA c : c.target_id # node_id)]]
             order2 == SelectSeq(s.order, LAMBDA k : k # node_id)
         IN  [s EXCEPT !.nodes = [k \in (DOMAIN filtered) \ {node_id} |-> filtered[k]],
                       !.order = order2,
                       !.start_node_id = IF @ = node_id
                                         THEN IF order2 = <<>> THEN None
                                              ELSE order2[Len(order2)]
                                         ELSE @]
    ELSE s

\* a delete_node that also drops the unlinked choices
delete_node_drops_unlinked(s, node_id) ==
    IF node_id \in DOMAIN s.nodes
    THEN LET filtered == [k \in DOMAIN s.nodes |->
                            [s.nodes[k] EXCEPT !.choices =
                                SelectSeq(@, LAMBDA c : c.target_id # node_id
                                                        /\ c.target_id # "")]]
             order2 == SelectSeq(s.order, LAMBDA k : k # node_id)
         IN  [s EXCEPT !.nodes = [k \in (DOMAIN filtered) \ {node_id} |-> filtered[k]],
                       !.order = order2,
                       !.start_node_id = IF @ = node_id THEN FirstKey(order2) ELSE @]
    ELSE s

\* a delete_node that, given an id that is no key, still re-elects the start
delete_node_restarts(s, node_id) ==
    IF node_id \in DOMAIN s.nodes
    THEN LET filtered == [k \in DOMAIN s.nodes |->
                            [s.nodes[k] EXCEPT !.choices =
                                SelectSeq(@, LAMBDA c : c.target_id # node_id)]]
             order2 == SelectSeq(s.order, LAMBDA k : k # node_id)
         IN  [s EXCEPT !.nodes = [k \in (DOMAIN filtered) \ {node_id} |-> filtered[k]],
                       !.order = order2,
                       !.start_node_id = IF @ = node_id THEN FirstKey(order2) ELSE @]
    ELSE [s EXCEPT !.start_node_id = FirstKey(s.order)]

delete_node(s, node_id) ==
    IF node_id \in DOMAIN s.nodes
    THEN LET filtered == [k \in DOMAIN s.nodes |->
                            [s.nodes[k] EXCEPT !.choices =
                                SelectSeq(@, LAMBDA c : c.target_id # node_id)]]
             order2 == SelectSeq(s.order, LAMBDA k : k # node_id)
         IN  [s EXCEPT !.nodes = [k \in (DOMAIN filtered) \ {node_id} |-> filtered[k]],
                       !.order = order2,
                       !.start_node_id = IF @ = node_id THEN FirstKey(order2) ELSE @]
    ELSE s

\* story.nodes[node_id] raises KeyError for a missing key, before any change
duplicate_node_raises(s, node_id) == node_id \notin DOMAIN s.nodes

\* a duplicate_node whose copy points at itself where the original does
duplicate_node_retargets(s, node_id, new_id) ==
    IF duplicate_node_raises(s, node_id)
    THEN s
    ELSE LET n == s.nodes[node_id]
             new_node == Node(new_id, n.title \o " (copy)", n.text, n.npc,
                              n.location, n.emotion, n.tags, n.gm_notes,
                              [i \in DOMAIN n.choices |->
                                  Choice(n.choices[i].text,
                                         IF n.choices[i].target_id = node_id
                                         THEN new_id ELSE n.choices[i].target_id,
                                         n.choices[i].tags, n.choices[i].gate)])
             d == DictSet(s.nodes, s.order, new_id, new_node)
         IN  [s EXCEPT !.nodes = d.nodes, !.order = d.order]

duplicate_node(s, node_id, new_id) ==
    IF duplicate_node_raises(s, node_id)
    THEN s
    ELSE LET n == s.nodes[node_id]
             new_node == Node(new_id, n.title \o " (copy)", n.text, n.npc,
                              n.location, n.emotion, n.tags, n.gm_notes,
                              [i \in DOMAIN n.choices |->
                                  Choice(n.choices[i].text, n.choices[i].target_id,
                                         n.choices[i].tags, n.choices[i].gate)])
             d == DictSet(s.nodes, s.order, new_id, new_node)
         IN  [s EXCEPT !.nodes = d.nodes, !.order = d.order]

\* "Make Start": story.start_node_id = selected_id, a plain assignment that
\* looks nothing up and so raises nothing
SetStartRaises(s, node_id) == FALSE

SetStart(s, node_id) ==
    IF SetStartRaises(s, node_id)
    THEN s
    ELSE [s EXCEPT !.start_node_id = node_id]

----------------------------------------------------------------------------
(* Serialization.  A JSON document is modelled as parsed JSON: an object   *)
(* read with .get() is a record, the "nodes" object is the sequence of its *)
(* members <<key, value>> in document order, and a value whose type the    *)
(* code tests (isinstance) carries its JSON type.                          *)

JObject(fields) == [json |-> "object", fields |-> fields]
JString(v) == [json |-> "string", value |-> v]
JList(items) == [json |-> "array", items |-> items]
IsDict(v) == v.json = "object"
IsList(v) == v.json = "array"

EncodeChoice(c) ==
    JObject([text |-> c.text, target_id |-> c.target_id,
             tags |-> c.tags, gate |-> c.gate])

EncodeNode(n) ==
    [id |-> n.id, title |-> n.title, text |-> n.text, npc |-> n.npc,
     location |-> n.location, emotion |-> n.emotion, tags |-> n.tags,
     gm_notes |-> n.gm_notes,
     choices |-> [i \in DOMAIN n.choices |-> EncodeChoice(n.choices[i])]]

story_to_json(s) ==
    [title |-> s.title, description |-> s.description,
     start_node_id |-> s.start_node_id,
     nodes |-> [i \in DOMAIN s.order |-> <<s.order[i], EncodeNode(s.nodes[s.order[i]])>>]]

\* a decoder that also skips the choices that lead nowhere
DecodeChoicesLinked(choices_raw) ==
    LET dicts == SelectSeq(choices_raw,
                           LAMBDA c : IsDict(c) /\ Get(c.fields, "target_id", "") # "")
    IN  [i \in DOMAIN dicts |->
            Choice(Get(dicts[i].fields, "text", ""),
                   Get(dicts[i].fields, "target_id", ""),
                   Get(dicts[i].fields, "tags", <<>>),
                   Get(dicts[i].fields, "gate", ""))]

\* the loop over choices_raw: non-dict entries are skipped
DecodeChoices(choices_raw) ==
    LET dicts == SelectSeq(choices_raw, IsDict)
    IN  [i \in DOMAIN dicts |->
            Choice(Get(dicts[i].fields, "text", ""),
                   Get(dicts[i].fields, "target_id", ""),
                   Get(dicts[i].fields, "tags", <<>>),
                   Get(dicts[i].fields, "gate", ""))]

DecodeNode(nid, nd) ==
    Node(Get(nd, "id", nid), Get(nd, "title", "(untitled)"), Get(nd, "text", ""),
         Get(nd, "npc", ""), Get(nd, "location", ""), Get(nd, "emotion", ""),
         Get(nd, "tags", <<>>), Get(nd, "gm_notes", ""),
         DecodeChoices(Get(nd, "choices", <<>>)))

\* the loop over data.get("nodes", {}).items(), up to member i
RECURSIVE DecodeNodes(_, _)
DecodeNodes(members, i) ==
    IF i = 0
    THEN [nodes |-> <<>>, order |-> <<>>]
    ELSE LET d == DecodeNodes(members, i - 1)
         IN  DictSet(d.nodes, d.order, members[i][1],
                     DecodeNode(members[i][1], members[i][2]))

story_from_json(data) ==
    LET members == Get(data, "nodes", <<>>)
        d == DecodeNodes(members, Len(members))
    IN  Story(Get(data, "title", "Untitled Story"), Get(data, "description", ""),
              d.nodes, d.order, Get(data, "start_node_id", None))

\* Documents offered to the uploader
DocFull ==
    [title |-> "Grol", description |-> "d", start_node_id |-> "y",
     nodes |-> <<
        <<"x", [id |-> "x", title |-> "Hall", text |-> "t", npc |-> "", location |-> "",
                emotion |-> "", tags |-> <<"intro">>, gm_notes |-> "",
                choices |-> << JObject([text |-> "go", target_id |-> "y",
                                        tags |-> <<>>, gate |-> ""]) >>]>>,
        <<"y", [id |-> "y", title |-> "Pit", text |-> "", npc |-> "", location |-> "",
                emotion |-> "", tags |-> <<>>, gm_notes |-> "",
                choices |-> << JObject([text |-> "jump", target_id |-> "zz",
                                        tags |-> <<>>, gate |-> "DC 13"]) >>]>> >>]

\* no nodes, and a start_node_id that names none
DocNoNodes == [title |-> "Empty", start_node_id |-> "zz", nodes |-> <<>>]

\* a non-object choice entry, a choice without target_id, an id unlike its key
DocMalformed ==
    [nodes |-> << <<"x", [id |-> "other",
                          choices |-> << JString("oops"),
                                         JObject([text |-> "go"]) >>]>> >>]

\* the files the user may put in the uploader, and json.loads of up.read()
Documents == {"full.json", "nonodes.json", "malformed.json"}

Content(file) ==
    CASE file = "full.json" -> DocFull
      [] file = "nonodes.json" -> DocNoNodes
      [] file = "malformed.json" -> DocMalformed

----------------------------------------------------------------------------
(* AI-batch ingestion: apply_ai_nodes_to_story.  `data` is json.loads of   *)
(* the batch; the j-th node it creates gets the id Id(base + j).           *)

\* nd.get("title", "Untitled").strip() or "Untitled"
FirstPassTitle(nd) ==
    IF strip(Get(nd, "title", "Untitled")) = "" THEN "Untitled"
    ELSE strip(Get(nd, "title", "Untitled"))

\* "First pass: create nodes", up to proto-node i; title_to_id is the dict
\* `ids` with the insertion order `order` of its keys
RECURSIVE FirstPass(_, _, _, _)
FirstPass(s, nodes_def, base, i) ==
    IF i = 0
    THEN [story |-> s, ids |-> <<>>, order |-> <<>>]
    ELSE LET p == FirstPass(s, nodes_def, base, i - 1)
             nd == nodes_def[i]
             title == FirstPassTitle(nd)
             nid == Id(base + i)
             d == DictSet(p.ids, p.order, title, nid)
         IN  [story |-> add_node(p.story, nid,
                          [title |-> title, text |-> Get(nd, "text", ""),
                           npc |-> Get(nd, "npc", ""),
                           location |-> Get(nd, "location", ""),
                           emotion |-> Get(nd, "emotion", ""),
                           tags |-> Get(nd, "tags", <<>>),
                           gm_notes |-> Get(nd, "gm_notes", "")]),
              ids |-> d.nodes, order |-> d.order]

\* the choice entries the inner loop handles before ch_def.get raises on an
\* entry that is no dict
RECURSIVE Wired(_)
Wired(ch_defs) ==
    IF ch_defs = <<>> \/ ~IsDict(Head(ch_defs))
    THEN <<>>
    ELSE <<Head(ch_defs)>> \o Wired(Tail(ch_defs))

\* a lookup that falls back to the title itself when no proto-node has it
WireTargetByTitle(ch_def, ids) ==
    LET t == Get(ch_def.fields, "target_title", None)
        tgt_title == IF Falsy(t) THEN "" ELSE strip(t)
    IN  Get(ids, tgt_title, tgt_title)

\* (ch_def.get("target_title") or "").strip(), looked up in title_to_id
WireTarget(ch_def, ids) ==
    LET t == Get(ch_def.fields, "target_title", None)
        tgt_title == IF Falsy(t) THEN "" ELSE strip(t)
    IN  Get(ids, tgt_title, "")

\* "Second pass: wire internal choices", up to proto-node i; `raised` once
\* an entry that is no dict has ended the pass
RECURSIVE SecondPass(_, _, _, _)
SecondPass(s, nodes_def, ids, i) ==
    IF i = 0
    THEN [story |-> s, raised |-> FALSE]
    ELSE LET p == SecondPass(s, nodes_def, ids, i - 1)
             nd == nodes_def[i]
             title == strip(Get(nd, "title", ""))
             nid == Get(ids, title, None)
             ch_defs == Get(nd, "choices", <<>>)
             ok == Wired(ch_defs)
         IN  IF p.raised \/ Falsy(nid)
             THEN p
             ELSE [story |-> [p.story EXCEPT !.nodes[nid].choices = @ \o
                                [j \in DOMAIN ok |->
                                    Choice(Get(ok[j].fields, "text", ""),
                                           WireTarget(ok[j], ids),
                                           Get(ok[j].fields, "tags", <<>>),
                                           Get(ok[j].fields, "gate", ""))]],
                   raised |-> Len(ok) < Len(ch_defs)]

\* "Optionally attach the first new node to an existing parent as a choice"
Attach(s, new_ids, attach_parent_id, attach_choice_text) ==
    IF /\ ~Falsy(attach_parent_id)
       /\ ~Falsy(attach_choice_text)
       /\ new_ids # <<>>
       /\ attach_parent_id \in DOMAIN s.nodes
    THEN [s EXCEPT !.nodes[attach_parent_id].choices =
                       Append(@, Choice(attach_choice_text, new_ids[1], <<>>, ""))]
    ELSE s

\* an ingestion whose validation lets the empty list through
apply_ai_nodes_accepts_empty(s, data, base, attach_parent_id, attach_choice_text) ==
    LET nodes_def == Get(data, "nodes", JList(<<>>))
    IN  IF ~IsList(nodes_def)
        THEN [story |-> s, new_ids |-> <<>>, raised |-> "ValueError"]
        ELSE LET a == FirstPass(s, nodes_def.items, base, Len(nodes_def.items))
                 b == SecondPass(a.story, nodes_def.items, a.ids, Len(nodes_def.items))
                 new_ids == [j \in DOMAIN a.order |-> a.ids[a.order[j]]]
             IN  IF b.raised
                 THEN [story |-> b.story, new_ids |-> <<>>, raised |-> "AttributeError"]
                 ELSE [story |-> Attach(b.story, new_ids, attach_parent_id,
                                        attach_choice_text),
                       new_ids |-> new_ids, raised |-> ""]

\* the story after the call, the list it returns and the exception it raises
apply_ai_nodes_to_story(s, data, base, attach_parent_id, attach_choice_text) ==
    LET nodes_def == Get(data, "nodes", JList(<<>>))
    IN  IF ~IsList(nodes_def) \/ nodes_def.items = <<>>
        THEN [story |-> s, new_ids |-> <<>>, raised |-> "ValueError"]
        ELSE LET a == FirstPass(s, nodes_def.items, base, Len(nodes_def.items))
                 b == SecondPass(a.story, nodes_def.items, a.ids, Len(nodes_def.items))
                 new_ids == [j \in DOMAIN a.order |-> a.ids[a.order[j]]]
             IN  IF b.raised
                 THEN [story |-> b.story, new_ids |-> <<>>, raised |-> "AttributeError"]
                 ELSE [story |-> Attach(b.story, new_ids, attach_parent_id,
                                        attach_choice_text),
                       new_ids |-> new_ids, raised |-> ""]

\* how many ids the call draws from _new_id()
Drawn(data) ==
    LET nodes_def == Get(data, "nodes", JList(<<>>))
    IN  IF IsList(nodes_def) THEN Len(nodes_def.items) ELSE 0

\* Batches the assistant may have left in ai_last_raw_json
BatchPair ==
    [nodes |-> JList(<<
        [title |-> " Gate ", text |-> "t"],
        [title |-> "Yard",
         choices |-> << JObject([text |-> "back", target_title |-> "Gate"]) >>] >>)]

\* two proto-nodes with one title
BatchTwins ==
    [nodes |-> JList(<<
        [title |-> "Gate",
         choices |-> << JObject([text |-> "on", target_title |-> "New Node"]) >>],
        [title |-> "Gate"] >>)]

\* no title, and a choice entry that is no object
BatchLoose ==
    [nodes |-> JList(<<
        [choices |-> << JObject([text |-> "on", target_title |-> "Untitled"]) >>],
        [title |-> "Yard",
         choices |-> << JString("oops"), JObject([text |-> "back"]) >>] >>)]

BatchEmpty == [nodes |-> JList(<<>>)]

\* one proto-node, with a choice named after a node the story may have
BatchSolo ==
    [nodes |-> JList(<<
        [title |-> "Yard",
         choices |-> << JObject([text |-> "on", target_title |-> "New Node"]) >>] >>)]

Batches == {"pair", "twins", "loose", "empty"}

Batch(name) ==
    CASE name = "pair" -> BatchPair
      [] name = "twins" -> BatchTwins
      [] name = "loose" -> BatchLoose
      [] name = "empty" -> BatchEmpty
      [] name = "solo" -> BatchSolo

----------------------------------------------------------------------------
(* tab_visualizer: the edges handed to the graph renderer.  q is the       *)
(* sidebar's search text, lowered and stripped.                            *)

\* str.lower() on the titles and texts of the model
lower(s) == CASE s = "Hall" -> "hall"
              [] s = "Pit" -> "pit"
              [] s = "Gate" -> "gate"
              [] s = "Yard" -> "yard"
              [] s = "New Node" -> "new node"
              [] s = "Untitled" -> "untitled"
              [] OTHER -> s

\* search texts the user may have typed
Queries == {"", "pit"}

\* `q in s` for the search texts of Queries and a lowered title or text
Contains(q, s) == q = "" \/ (q = "pit" /\ s = "pit")

\* the node is not skipped by `if q and (q not in title and q not in text)`
Shown(q, n) ==
    ~(q # "" /\ ~Contains(q, lower(n.title)) /\ ~Contains(q, lower(n.text)))

\* (ch.text or "") + gate
EdgeLabel(ch) == IF ch.gate # "" THEN ch.text \o " [" \o ch.gate \o "]" ELSE ch.text

\* an edge list that does not test whether the target exists
RECURSIVE EdgesUnchecked(_, _, _)
EdgesUnchecked(s, q, i) ==
    IF i = 0 THEN <<>>
    ELSE LET nid == s.order[i]
             n == s.nodes[nid]
         IN  EdgesUnchecked(s, q, i - 1) \o
                (IF Shown(q, n)
                 THEN [c \in DOMAIN n.choices |->
                          <<nid, n.choices[c].target_id, EdgeLabel(n.choices[c])>>]
                 ELSE <<>>)

\* "Edges": the dot.edge calls of the first i nodes, in order
RECURSIVE Edges(_, _, _)
Edges(s, q, i) ==
    IF i = 0 THEN <<>>
    ELSE LET nid == s.order[i]
             n == s.nodes[nid]
             linked == SelectSeq(n.choices, LAMBDA ch : ch.target_id \in DOMAIN s.nodes)
         IN  Edges(s, q, i - 1) \o
                (IF Shown(q, n)
                 THEN [c \in DOMAIN linked |->
                          <<nid, linked[c].target_id, EdgeLabel(linked[c])>>]
                 ELSE <<>>)

----------------------------------------------------------------------------
(* The script run.  A session is the part of st.session_state the tabs     *)
(* read and write; each stage below is one stretch of main(), in order.    *)

Session == [story |-> story, ui |-> ui, has_imported |-> has_imported]

Keys(ss) == DOMAIN ss.story.nodes

\* tab_editor, left column: filtered_items (filters at their defaults) and
\* the "Select a node" box.  ids[0] is the first node by lower-cased title;
\* titles are free text, so `pick` (any key) stands for it.
EditorLeft(ss, pick) ==
    IF ss.story.order = <<>>
    THEN ss
    ELSE IF ss.ui.selected_node_id \in Keys(ss)
         THEN ss
         ELSE [ss EXCEPT !.ui.selected_node_id =
                            IF pick \in Keys(ss) THEN pick ELSE ss.story.order[1]]

\* "Leads to node" select box of one existing choice: target_idx stays 0
\* (the "Unlinked" entry) unless target_id is "" or a key of story.nodes
TargetSelector(ss, target_id) ==
    IF target_id \in Keys(ss) THEN target_id ELSE ""

\* tab_editor, right column, with no button pressed: every existing choice
\* of the selected node is written back from its widgets
EditorRight(ss) ==
    LET sel == ss.ui.selected_node_id
    IN  IF Falsy(sel) \/ sel \notin Keys(ss)
        THEN ss
        ELSE [ss EXCEPT !.story.nodes[sel].choices =
                 [i \in DOMAIN @ |->
                     [@[i] EXCEPT !.target_id = TargetSelector(ss, @)]]]

\* a start repair that falls back to the first node even when the start
\* node exists
PlaybackStartResets(ss) == [ss EXCEPT !.story.start_node_id = ss.story.order[1]]

\* tab_playback: "Choose starting node safely"
PlaybackStart(ss) ==
    IF ss.story.start_node_id \in Keys(ss)
    THEN ss
    ELSE [ss EXCEPT !.story.start_node_id = ss.story.order[1]]

\* the value of the "Start at" select box: what the user picked, else the
\* default index (the start node)
StartId(ss, start_sel) ==
    IF start_sel \in Keys(ss) THEN start_sel ELSE ss.story.start_node_id

\* a validation that moves to the start node and keeps the history
PlaybackValidateKeepsHistory(ss, start_id) ==
    LET curr == ss.ui.playback_node_id
    IN  IF Falsy(curr) \/ curr \notin Keys(ss)
        THEN [ss EXCEPT !.ui.playback_node_id = start_id]
        ELSE ss

\* a validation that puts the start node on top of the old history
PlaybackValidateAppends(ss, start_id) ==
    LET curr == ss.ui.playback_node_id
    IN  IF Falsy(curr) \/ curr \notin Keys(ss)
        THEN [ss EXCEPT !.ui.playback_node_id = start_id,
                        !.ui.playback_history = Append(@, start_id)]
        ELSE ss

\* tab_playback: "Initialize / validate current node"
PlaybackValidate(ss, start_id) ==
    LET curr == ss.ui.playback_node_id
    IN  IF Falsy(curr) \/ curr \notin Keys(ss)
        THEN [ss EXCEPT !.ui.playback_node_id = start_id,
                        !.ui.playback_history = <<start_id>>]
        ELSE ss

\* tab_playback with no button pressed
PlaybackTab(ss, start_sel) ==
    IF ss.story.order = <<>>
    THEN ss
    ELSE LET a == PlaybackStart(ss)
         IN  PlaybackValidate(a, StartId(a, start_sel))

\* tab_io: the import block of a decodable upload
ImportStory(ss, file) ==
    LET imported == story_from_json(Content(file))
        first_id == FirstKey(imported.order)
    IN  [story |-> imported,
         ui |-> [ss.ui EXCEPT !.selected_node_id = first_id,
                              !.playback_node_id = first_id,
                              !.playback_history =
                                  IF Falsy(first_id) THEN <<>> ELSE <<first_id>>],
         has_imported |-> TRUE]

\* main() up to the end of tab_playback, no button pressed
ToPlaybackEnd(ss, pick, start_sel) ==
    PlaybackTab(EditorRight(EditorLeft(ss, pick)), start_sel)

\* an import column without the has_imported test: every run that finds a
\* file imports it
ImportTabUnguarded(ss, upv, pick, start_sel) ==
    IF upv # None
    THEN ToPlaybackEnd(ImportStory(ss, upv), pick, start_sel)
    ELSE IF ss.has_imported
         THEN [ss EXCEPT !.has_imported = FALSE]
         ELSE ss

\* tab_io, import column; an import ends in st.rerun(), the run that follows
\* finds has_imported set
ImportTab(ss, upv, pick, start_sel) ==
    IF upv # None /\ ~ss.has_imported
    THEN ToPlaybackEnd(ImportStory(ss, upv), pick, start_sel)
    ELSE IF upv = None /\ ss.has_imported
         THEN [ss EXCEPT !.has_imported = FALSE]
         ELSE ss

\* main() from tab_editor's right column on
AfterEditorLeft(ss, upv, pick, start_sel) ==
    ImportTab(PlaybackTab(EditorRight(ss), start_sel), upv, pick, start_sel)

\* one complete run of main() with no button pressed: what st.rerun() starts
Script(ss, upv, pick, start_sel) ==
    AfterEditorLeft(EditorLeft(ss, pick), upv, pick, start_sel)

Commit(ss) ==
    /\ story' = ss.story
    /\ ui' = ss.ui
    /\ has_imported' = ss.has_imported

\* the record kept in `last`: the event, its argument, a count that depends
\* on the event, and start_node_id as the run found it
Event(op, arg, n) == [op |-> op, arg |-> arg, n |-> n, start |-> story.start_node_id]

----------------------------------------------------------------------------
(* Bookkeeping for "k Choose calls followed by k StepBack calls": s is the *)
(* single history entry the run of Choose calls started from, k the number *)
(* of Choose calls, j the number of StepBack calls made after them.  An     *)
(* experiment has at most MaxHistory - 1 Choose calls.                     *)

ProbeIdle == [phase |-> "idle", s |-> None, k |-> 0, j |-> 0]

ProbeChoose ==
    IF probe.phase = "up" /\ probe.k < MaxHistory - 1
    THEN [probe EXCEPT !.k = @ + 1]
    ELSE IF Len(ui.playback_history) = 1
         THEN [phase |-> "up", s |-> ui.playback_history[1], k |-> 1, j |-> 0]
         ELSE ProbeIdle

ProbeStepBack ==
    IF probe.phase = "up"
    THEN [probe EXCEPT !.phase = "down", !.j = 1]
    ELSE IF probe.phase = "down" /\ probe.j < probe.k
         THEN [probe EXCEPT !.j = @ + 1]
         ELSE ProbeIdle

----------------------------------------------------------------------------
(* Events.  Each action is one script run: main() up to the pressed        *)
(* button, the button's handler, and the rest of the run or the rerun.     *)

NodeArgs(title, text) ==
    [title |-> title, text |-> text, npc |-> "", location |-> "",
     emotion |-> "", tags |-> <<>>, gm_notes |-> ""]

\* "New" and "New First Node" (title="New Node", text="")
NewNodeArgs == {NodeArgs("New Node", "")}

NewNode ==
    /\ minted < MaxIds
    /\ \E a \in NewNodeArgs :
         LET nid == _new_id
             h == [Session EXCEPT !.story = add_node(@, nid, a),
                                  !.ui.selected_node_id = nid]
         IN  /\ Commit(Script(h, up, None, None))
             /\ last' = Event("NewNode", nid, 0)
    /\ minted' = minted + 1
    /\ probe' = ProbeIdle
    /\ UNCHANGED up

\* "Duplicate"
Duplicate ==
    LET a == EditorLeft(Session, None)
        selected_id == a.ui.selected_node_id
    IN  /\ minted < MaxIds
        /\ ~Falsy(selected_id)
        /\ IF duplicate_node_raises(a.story, selected_id)
           THEN Commit(a) /\ minted' = minted
           ELSE LET new_id == _new_id
                    h == [a EXCEPT !.story = duplicate_node(@, selected_id, new_id),
                                   !.ui.selected_node_id = new_id]
                IN  Commit(Script(h, up, None, None)) /\ minted' = minted + 1
        /\ last' = Event("Duplicate", selected_id, 0)
        /\ probe' = ProbeIdle
        /\ UNCHANGED up

\* "Make Start": no rerun, the run goes on
MakeStart ==
    LET a == EditorLeft(Session, None)
        selected_id == a.ui.selected_node_id
    IN  /\ ~Falsy(selected_id)
        /\ Commit(AfterEditorLeft([a EXCEPT !.story = SetStart(@, selected_id)],
                                  up, None, None))
        /\ last' = Event("MakeStart", selected_id, 0)
        /\ probe' = ProbeIdle
        /\ UNCHANGED <<up, minted>>

\* choices of the other nodes that lead to node_id
Inbound(s, node_id) ==
    {ki \in UNION {{<<k, i>> : i \in DOMAIN s.nodes[k].choices} :
                      k \in (DOMAIN s.nodes) \ {node_id}} :
        s.nodes[ki[1]].choices[ki[2]].target_id = node_id}

\* "Delete"
Delete ==
    LET a == EditorLeft(Session, None)
        selected_id == a.ui.selected_node_id
        rest == Keys(a) \ {selected_id}
        inputs == IF rest = {} THEN {None} ELSE rest
    IN  /\ ~Falsy(selected_id)
        /\ \E pick \in inputs, start_sel \in inputs :
             LET h == [a EXCEPT !.story = delete_node(@, selected_id),
                                !.ui.selected_node_id = None]
             IN  Commit(Script(h, up, pick, start_sel))
        /\ last' = Event("Delete", selected_id,
                         Cardinality(Inbound(a.story, selected_id)))
        /\ probe' = ProbeIdle
        /\ UNCHANGED <<up, minted>>

\* the user picks another entry of "Select a node"
SelectNode ==
    \E k \in DOMAIN story.nodes :
        /\ k # ui.selected_node_id
        /\ Commit(AfterEditorLeft([Session EXCEPT !.ui.selected_node_id = k],
                                  up, None, None))
        /\ last' = Event("SelectNode", k, 0)
        /\ probe' = ProbeIdle
        /\ UNCHANGED <<up, minted>>

\* any other widget: the script runs with no button pressed
Rerun ==
    /\ Commit(Script(Session, up, None, None))
    /\ last' = Event("Rerun", None, 0)
    /\ probe' = ProbeIdle
    /\ UNCHANGED <<up, minted>>

----------------------------------------------------------------------------
(* Choice editing in tab_editor's right column, on the selected node *)

\* the session at the right column, and whether the column shows a node
AtEditor == EditorLeft(Session, None)

EditorShowsNode ==
    ~Falsy(AtEditor.ui.selected_node_id) /\ AtEditor.ui.selected_node_id \in Keys(AtEditor)

SelectedChoices == AtEditor.story.nodes[AtEditor.ui.selected_node_id].choices

SetChoices(ss, choices) ==
    [ss EXCEPT !.story.nodes[ss.ui.selected_node_id].choices = choices]

\* node.choices.pop(i), i counted from 1
Pop(choices, i) == [j \in 1..(Len(choices) - 1) |-> IF j < i THEN choices[j] ELSE choices[j + 1]]

\* an exchange that writes choices[j] to both places
SwapCopies(choices, i, j) ==
    [x \in DOMAIN choices |-> IF x = i \/ x = j THEN choices[j] ELSE choices[x]]

\* choices[i], choices[j] = choices[j], choices[i]
Swap(choices, i, j) ==
    [x \in DOMAIN choices |-> IF x = i THEN choices[j] ELSE IF x = j THEN choices[i] ELSE choices[x]]

\* texts typed into "New choice text"
ChoiceTexts == {"go"}

\* target_choices: the "Unlinked" entry and every node
TargetChoices(ss) == {""} \cup Keys(ss)

\* the user picks another entry of a choice's "Leads to node"
EditChoice ==
    /\ EditorShowsNode
    /\ \E i \in DOMAIN SelectedChoices, t \in TargetChoices(AtEditor) :
         /\ t # SelectedChoices[i].target_id
         /\ Commit(AfterEditorLeft(
                SetChoices(AtEditor, [SelectedChoices EXCEPT ![i].target_id = t]),
                up, None, None))
         /\ last' = Event("EditChoice", AtEditor.ui.selected_node_id, i)
    /\ probe' = ProbeIdle
    /\ UNCHANGED <<up, minted>>

\* "Remove"
RemoveChoice ==
    /\ EditorShowsNode
    /\ \E i \in DOMAIN SelectedChoices :
         /\ Commit(Script(SetChoices(AtEditor, Pop(SelectedChoices, i)), up, None, None))
         /\ last' = Event("RemoveChoice", AtEditor.ui.selected_node_id, i)
    /\ probe' = ProbeIdle
    /\ UNCHANGED <<up, minted>>

\* "Move up" of choice i (i counted from 1): button and i > 0
MoveUp ==
    /\ EditorShowsNode
    /\ \E i \in DOMAIN SelectedChoices :
         /\ IF i > 1
            THEN Commit(Script(SetChoices(AtEditor, Swap(SelectedChoices, i - 1, i)),
                               up, None, None))
            ELSE Commit(AfterEditorLeft(AtEditor, up, None, None))
         /\ last' = Event("MoveUp", AtEditor.ui.selected_node_id, i)
    /\ probe' = ProbeIdle
    /\ UNCHANGED <<up, minted>>

\* "Move down" of choice i: button and i < len(node.choices) - 1
MoveDown ==
    /\ EditorShowsNode
    /\ \E i \in DOMAIN SelectedChoices :
         /\ IF i < Len(SelectedChoices)
            THEN Commit(Script(SetChoices(AtEditor, Swap(SelectedChoices, i + 1, i)),
                               up, None, None))
            ELSE Commit(AfterEditorLeft(AtEditor, up, None, None))
         /\ last' = Event("MoveDown", AtEditor.ui.selected_node_id, i)
    /\ probe' = ProbeIdle
    /\ UNCHANGED <<up, minted>>

\* number of choices in the whole story
RECURSIVE CountChoices(_, _)
CountChoices(s, i) ==
    IF i = 0 THEN 0 ELSE Len(s.nodes[s.order[i]].choices) + CountChoices(s, i - 1)

\* "Add Choice" and new_c_text
AddChoice ==
    /\ EditorShowsNode
    /\ CountChoices(story, Len(story.order)) < MaxChoices
    /\ \E new_c_text \in ChoiceTexts, t \in TargetChoices(AtEditor) :
         /\ Commit(Script(
                SetChoices(EditorRight(AtEditor),
                           Append(EditorRight(AtEditor).story.nodes[AtEditor.ui.selected_node_id].choices,
                                  Choice(new_c_text, t, <<>>, ""))),
                up, None, None))
         /\ last' = Event("AddChoice", AtEditor.ui.selected_node_id, 0)
    /\ probe' = ProbeIdle
    /\ UNCHANGED <<up, minted>>

----------------------------------------------------------------------------
(* tab_ai, "Generate a new branching sequence" *)

\* "Apply these nodes to the story"; the batch is what the last "Generate"
\* left in ai_last_raw_json.  No rerun: the run goes on with tab_io.
ApplyBranch(names) ==
    \E name \in names, attach_to_existing \in BOOLEAN :
        LET a == ToPlaybackEnd(Session, None, None)
            sel_id == a.ui.selected_node_id
            has_sel == ~Falsy(sel_id) /\ sel_id \in Keys(a)
            parent_id == IF attach_to_existing /\ has_sel
                         THEN a.story.nodes[sel_id].id ELSE None
            r == apply_ai_nodes_to_story(a.story, Batch(name), minted, parent_id,
                     IF Falsy(parent_id) THEN None ELSE "Follow this thread")
            h == [a EXCEPT !.story = r.story,
                           !.ui.selected_node_id =
                               IF r.new_ids # <<>> THEN r.new_ids[1] ELSE @]
        IN  /\ minted + Drawn(Batch(name)) <= MaxIds
            /\ Commit(ImportTab(h, up, None, None))
            /\ minted' = minted + Drawn(Batch(name))
            /\ last' = Event("Ingest", name, Len(r.new_ids))
            /\ probe' = ProbeIdle
            /\ UNCHANGED up

\* "Apply these nodes to the story" with one of the batches of Batches
Ingest == ApplyBranch(Batches)

\* the same button when the assistant left the one-node batch
IngestSolo == ApplyBranch({"solo"})

----------------------------------------------------------------------------
(* Playback buttons.  AtPlayback is the session where tab_playback draws   *)
(* "Restart" and "Step Back"; the choice and "Path so far" buttons come    *)
(* after the current node is validated.                                    *)

AtPlayback == PlaybackStart(EditorRight(EditorLeft(Session, None)))

PlaybackShown == AtEditor.story.order # <<>>

\* a "Restart" that puts the start node on top of the old history
RestartKeepsHistory ==
    /\ PlaybackShown
    /\ \E start_sel \in Keys(AtPlayback) :
         LET start_id == StartId(AtPlayback, start_sel)
             h == [AtPlayback EXCEPT !.ui.playback_node_id = start_id,
                                     !.ui.playback_history = Append(@, start_id)]
         IN  /\ Commit(Script(h, up, None, start_sel))
             /\ last' = Event("Restart", start_id, 0)
    /\ probe' = ProbeIdle
    /\ UNCHANGED <<up, minted>>

\* "Restart"
Restart ==
    /\ PlaybackShown
    /\ \E start_sel \in Keys(AtPlayback) :
         LET start_id == StartId(AtPlayback, start_sel)
             h == [AtPlayback EXCEPT !.ui.playback_node_id = start_id,
                                     !.ui.playback_history = <<start_id>>]
         IN  /\ Commit(Script(h, up, None, start_sel))
             /\ last' = Event("Restart", start_id, 0)
    /\ probe' = ProbeIdle
    /\ UNCHANGED <<up, minted>>

\* "Step Back"
StepBack ==
    /\ PlaybackShown
    /\ \E start_sel \in Keys(AtPlayback) :
         LET hist == AtPlayback.ui.playback_history
         IN  IF Len(hist) > 1
             THEN LET popped == SubSeq(hist, 1, Len(hist) - 1)
                      h == [AtPlayback EXCEPT !.ui.playback_history = popped,
                                              !.ui.playback_node_id = popped[Len(popped)]]
                  IN  Commit(Script(h, up, None, start_sel))
             ELSE Commit(ImportTab(
                      PlaybackValidate(AtPlayback, StartId(AtPlayback, start_sel)),
                      up, None, start_sel))
    /\ last' = Event("StepBack", None, Len(AtPlayback.ui.playback_history))
    /\ probe' = ProbeStepBack
    /\ UNCHANGED <<up, minted>>

\* a choice button of the current node
Choose ==
    /\ PlaybackShown
    /\ \E start_sel \in Keys(AtPlayback) :
         LET b == PlaybackValidate(AtPlayback, StartId(AtPlayback, start_sel))
             n == b.story.nodes[b.ui.playback_node_id]
         IN  /\ Len(b.ui.playback_history) < MaxHistory
             /\ \E i \in DOMAIN n.choices :
                  LET ch == n.choices[i]
                      h == [b EXCEPT !.ui.playback_node_id = ch.target_id,
                                     !.ui.playback_history = Append(@, ch.target_id)]
                  IN  /\ Commit(Script(h, up, None, start_sel))
                      /\ last' = Event("Choose", ch.target_id,
                                       IF ch.target_id \in Keys(b) THEN 0 ELSE 1)
    /\ probe' = ProbeChoose
    /\ UNCHANGED <<up, minted>>

\* a "Path so far" button; the row is drawn only below a node with choices
JumpTo ==
    /\ PlaybackShown
    /\ \E start_sel \in Keys(AtPlayback) :
         LET b == PlaybackValidate(AtPlayback, StartId(AtPlayback, start_sel))
             n == b.story.nodes[b.ui.playback_node_id]
             playback_hist == SelectSeq(b.ui.playback_history, LAMBDA nid : nid \in Keys(b))
         IN  /\ n.choices # <<>>
             /\ \E idx \in DOMAIN playback_hist :
                  LET h == [b EXCEPT !.ui.playback_node_id = playback_hist[idx],
                                     !.ui.playback_history = SubSeq(playback_hist, 1, idx)]
                  IN  /\ Commit(Script(h, up, None, start_sel))
                      /\ last' = Event("JumpTo", playback_hist[idx], idx)
    /\ probe' = ProbeIdle
    /\ UNCHANGED <<up, minted>>

----------------------------------------------------------------------------
(* The file uploader of tab_io *)

Upload ==
    \E file \in Documents :
        /\ up = None
        /\ up' = file
        /\ Commit(Script(Session, file, None, None))
        /\ last' = Event("Upload", None, 0)
        /\ probe' = ProbeIdle
        /\ UNCHANGED minted

ClearUpload ==
    /\ up # None
    /\ up' = None
    /\ Commit(Script(Session, None, None, None))
    /\ last' = Event("ClearUpload", None, 0)
    /\ probe' = ProbeIdle
    /\ UNCHANGED minted

----------------------------------------------------------------------------

\* ensure_state(): an empty story, nothing selected, no playback position
Init ==
    /\ story = Story("BranchWeaver Project", "A branching story/dialogue for your campaign.",
                     <<>>, <<>>, None)
    /\ ui = [selected_node_id |-> None, playback_node_id |-> None,
             playback_history |-> <<>>]
    /\ has_imported = FALSE
    /\ up = None
    /\ minted = 0
    /\ last = [op |-> "ensure_state", arg |-> None, n |-> 0, start |-> None]
    /\ probe = ProbeIdle

Next ==
    \/ NewNode
    \/ Duplicate
    \/ MakeStart
    \/ Delete
    \/ SelectNode
    \/ Rerun
    \/ EditChoice
    \/ RemoveChoice
    \/ MoveUp
    \/ MoveDown
    \/ AddChoice
    \/ Ingest
    \/ IngestSolo
    \/ Restart
    \/ StepBack
    \/ Choose
    \/ JumpTo
    \/ Upload
    \/ ClearUpload

Spec == Init /\ [][Next]_vars

\* the editor alone: no upload, no playback button
NextEdit ==
    \/ NewNode
    \/ Duplicate
    \/ MakeStart
    \/ Delete
    \/ SelectNode
    \/ Rerun
    \/ EditChoice
    \/ RemoveChoice
    \/ MoveUp
    \/ MoveDown
    \/ AddChoice
    \/ Ingest

SpecEdit == Init /\ [][NextEdit]_vars

\* playback and the uploader, with the editor buttons that add and delete
\* nodes and move the start node
NextPlay ==
    \/ NewNode
    \/ MakeStart
    \/ Delete
    \/ SelectNode
    \/ Rerun
    \/ Restart
    \/ StepBack
    \/ Choose
    \/ JumpTo
    \/ Upload
    \/ ClearUpload

SpecPlay == Init /\ [][NextPlay]_vars

\* ingestion into stories built with the node buttons
NextIngest ==
    \/ NewNode
    \/ Duplicate
    \/ MakeStart
    \/ Delete
    \/ SelectNode
    \/ Ingest
    \/ IngestSolo

SpecIngest == Init /\ [][NextIngest]_vars

\* walking a story built in the editor: no upload, no deletion
NextWalk ==
    \/ NewNode
    \/ SelectNode
    \/ AddChoice
    \/ Restart
    \/ StepBack
    \/ Choose
    \/ JumpTo

SpecWalk == Init /\ [][NextWalk]_vars

----------------------------------------------------------------------------
(* Properties of the mutation functions and the codec                      *)

NodeKeys == DOMAIN story.nodes

\* start_node_id is None exactly when there is no node, and a key otherwise
StartOK(s) ==
    IF s.order = <<>> THEN s.start_node_id = None
    ELSE s.start_node_id \in DOMAIN s.nodes

\* arguments add_node may be called with
AddNodeArgs ==
    {NodeArgs(t, x) : t \in {"New Node", " ", " Hall "}, x \in {"", " "}}

\* the selected node as parent, or no parent
AttachParents == {None} \cup NodeKeys

\* C1: from the empty story, after any sequence of add_node, duplicate_node,
\* delete_node, "Make Start" and ingestion, start_node_id is None exactly when
\* there are no nodes and is otherwise a key of nodes.  The story of every
\* reachable state satisfies this, and so does the story each of these calls
\* would return from it (before the rest of the script run sees it).
C1_StartNodeInvariant ==
    /\ StartOK(story)
    /\ \A a \in AddNodeArgs : StartOK(add_node(story, _new_id, a))
    /\ \A N \in NodeKeys :
         /\ StartOK(delete_node(story, N))
         /\ StartOK(duplicate_node(story, N, _new_id))
         /\ StartOK([story EXCEPT !.start_node_id = N])
    /\ \A name \in Batches, parent \in AttachParents :
         StartOK(apply_ai_nodes_to_story(story, Batch(name), minted, parent,
                                         "Follow this thread").story)

\* "Delete" has just removed the only node: no node, no start node
C1_Witness ==
    /\ last.op = "Delete"
    /\ last.start = last.arg
    /\ story.order = <<>>
    /\ story.start_node_id = None

\* every choice of story s, as <<owner key, position>>
ChoicesOf(s) == UNION {{<<k, i>> : i \in DOMAIN s.nodes[k].choices} : k \in DOMAIN s.nodes}

\* no choice of s targets N and N is no key of s
Gone(s, N) ==
    /\ N \notin DOMAIN s.nodes
    /\ \A ki \in ChoicesOf(s) : s.nodes[ki[1]].choices[ki[2]].target_id # N

\* C2: for every node N of the story, after delete_node(N) no remaining
\* node has a choice whose target_id is N, and N is no longer a key of nodes.
C2_DeleteRemovesInbound ==
    /\ \A N \in NodeKeys : Gone(delete_node(story, N), N)
    /\ last.op = "Delete" => Gone(story, last.arg)

\* "Delete" has removed a node that other, remaining nodes led to
C2_Witness ==
    /\ last.op = "Delete"
    /\ last.n > 0
    /\ story.order # <<>>
    /\ Gone(story, last.arg)

\* the keys that remain after N is deleted, in stored order
Remaining(s, N) == SelectSeq(s.order, LAMBDA k : k # N)

\* delete_node(N) on a story s whose start node is N
StartDeleted(s, N) ==
    LET s2 == delete_node(s, N)
    IN  /\ s2.order = Remaining(s, N)
        /\ IF Remaining(s, N) = <<>>
           THEN s2.start_node_id = None
           ELSE /\ s2.start_node_id = Remaining(s, N)[1]
                /\ s2.start_node_id \in DOMAIN s2.nodes

\* C3: after delete_node of the node that is start_node_id, start_node_id is
\* None if no node remains and otherwise the first remaining key in stored
\* order (a key of nodes).  Checked on the story of every reachable state and
\* on that story with one more node added, and on the "Delete" button.
C3_DeleteStartNode ==
    /\ \A N \in NodeKeys : story.start_node_id = N => StartDeleted(story, N)
    /\ \A a \in NewNodeArgs :
         LET s == add_node(story, _new_id, a)
         IN  StartDeleted(s, s.start_node_id)
    /\ (last.op = "Delete" /\ last.start = last.arg) =>
            story.start_node_id = IF story.order = <<>> THEN None ELSE story.order[1]

\* "Delete" has removed the start node and another node is left: it is the
\* start node now
C3_Witness ==
    /\ last.op = "Delete"
    /\ last.start = last.arg
    /\ story.order # <<>>
    /\ story.start_node_id = story.order[1]
    /\ last.arg \notin NodeKeys

\* structural equality after story_from_json(story_to_json(s))
RoundTrip(s) == story_from_json(story_to_json(s)) = s

\* s with the choice at ki leading to an id that is no key
Dangling(s, ki) == [s EXCEPT !.nodes[ki[1]].choices[ki[2]].target_id = "zz"]

\* C4: for every story made by the mutation functions and the choice editor
\* (create, duplicate, delete, add / edit / remove / reorder choice), with
\* choices whose target_id is empty or names no node included, decoding the
\* encoded story gives a story equal to it: title, description,
\* start_node_id, the keys in their order, every node field and every
\* ordered choice list.
C4_RoundTrip ==
    /\ RoundTrip(story)
    /\ \A ki \in ChoicesOf(story) : RoundTrip(Dangling(story, ki))

\* a reordered choice list with an unlinked choice in it, round-tripped
C4_Witness ==
    /\ last.op \in {"MoveUp", "MoveDown"}
    /\ \E k \in NodeKeys :
         /\ Len(story.nodes[k].choices) = 2
         /\ story.nodes[k].choices[1].target_id = ""
         /\ story.nodes[k].choices[2].target_id \in NodeKeys
    /\ story_from_json(story_to_json(story)).nodes = story.nodes

\* what duplicate_node(N) must do to story s, new being the id it draws
Duplicated(s, s2, N, new) ==
    /\ new # N
    /\ new \notin DOMAIN s.nodes
    /\ DOMAIN s2.nodes = (DOMAIN s.nodes) \cup {new}
    /\ s2.order = Append(s.order, new)
    /\ s2.nodes[new].id = new
    /\ Len(s2.nodes[new].choices) = Len(s.nodes[N].choices)
    /\ \A i \in DOMAIN s.nodes[N].choices :
         s2.nodes[new].choices[i].target_id = s.nodes[N].choices[i].target_id
    /\ s2.start_node_id = s.start_node_id
    /\ \A k \in DOMAIN s.nodes : s2.nodes[k] = s.nodes[k]

\* C5: duplicate_node(N) on an existing node adds exactly one node, under an
\* id that is neither N nor any id in the story, with a choice list of the
\* same length and the same target_id at every position as N's (a choice of
\* N that targets N still targets N), and leaves start_node_id and every
\* existing node unchanged.
C5_DuplicateNode ==
    \A N \in NodeKeys : Duplicated(story, duplicate_node(story, N, _new_id), N, _new_id)

\* "Duplicate" has copied a node that leads to itself: the copy leads to the
\* original
C5_Witness ==
    /\ last.op = "Duplicate"
    /\ last.arg \in NodeKeys
    /\ ui.selected_node_id \in NodeKeys \ {last.arg}
    /\ \E i \in DOMAIN story.nodes[last.arg].choices :
         /\ story.nodes[last.arg].choices[i].target_id = last.arg
         /\ story.nodes[ui.selected_node_id].choices[i].target_id = last.arg
    /\ story.start_node_id = last.start

\* what add_node must do to story s, new being the id it draws
Created(s, s2, new) ==
    /\ s2.start_node_id = IF Falsy(s.start_node_id) THEN new ELSE s.start_node_id
    /\ new \notin DOMAIN s.nodes
    /\ DOMAIN s2.nodes = (DOMAIN s.nodes) \cup {new}
    /\ s2.order = Append(s.order, new)
    /\ s2.nodes[new].id = new
    /\ s2.nodes[new].choices = <<>>
    /\ \A k \in DOMAIN s.nodes : s2.nodes[k] = s.nodes[k]

\* C10: add_node on a story without a start_node_id makes the new node the
\* start node, and on a story with one leaves start_node_id as it is; either
\* way exactly one node is added, under a fresh id and with no choices, and
\* no existing node changes.
C10_CreateNode ==
    \A a \in AddNodeArgs : Created(story, add_node(story, _new_id, a), _new_id)

\* "New" on a story that had a start node: a second node, the same start
C10_Witness ==
    /\ last.op = "NewNode"
    /\ ~Falsy(last.start)
    /\ story.start_node_id = last.start
    /\ last.arg \in NodeKeys \ {last.start}
    /\ story.nodes[last.arg].choices = <<>>
    /\ \E k \in NodeKeys : story.nodes[k].choices # <<>>

----------------------------------------------------------------------------
(* Properties of playback                                                  *)

history == ui.playback_history

current == ui.playback_node_id

\* C6 as stated: in every reachable state, after any interleaving of
\* start / restart, choose, step back, jump, import and story mutations, the
\* history is non-empty and its last entry is the current node id.
C6_HistoryNeverEmpty ==
    /\ history # <<>>
    /\ history[Len(history)] = current

\* C6, amended: either playback has no position (empty history and current
\* None: before the first playback run on a story with nodes, and after an
\* import of a document without nodes), or the history is non-empty and its
\* last entry is the current node id.
C6_PlaybackInvariant ==
    \/ history = <<>> /\ current = None
    \/ history # <<>> /\ history[Len(history)] = current

\* after an import, a choice has been followed: two entries, the last current
C6_Witness ==
    /\ last.op = "Choose"
    /\ up # None
    /\ Len(history) >= 2
    /\ history[Len(history)] = current
    /\ current \in NodeKeys

\* C7: "Step Back" on a history of length 1 leaves history and current node
\* unchanged; on a longer history it removes exactly the last entry and makes
\* the new last entry the current node.
C7_StepBack ==
    [][last'.op = "StepBack" =>
          IF Len(history) > 1
          THEN /\ history' = SubSeq(history, 1, Len(history) - 1)
               /\ current' = history[Len(history) - 1]
          ELSE UNCHANGED <<history, current>>]_vars

\* C8: from a history [s], k presses of choice buttons (whatever their
\* targets) followed by k presses of "Step Back" leave history [s] and
\* current s.
C8_ChooseThenStepBack ==
    (probe.phase = "down" /\ probe.j = probe.k) =>
        history = <<probe.s>> /\ current = probe.s

\* C9: a choice button whose target_id is no key of nodes appends that
\* target_id to the history and makes it the current id: the state after
\* the press is "current node missing", never a reset.
C9_ChooseMissingTarget ==
    [][(last'.op = "Choose" /\ last'.n = 1) =>
          /\ history' = Append(history, last'.arg)
          /\ current' = last'.arg]_vars

----------------------------------------------------------------------------
(* Further properties of the mutation functions                            *)

\* the choices of a list that do not lead to B, in their order
NotLeadingTo(choices, B) == SelectSeq(choices, LAMBDA c : c.target_id # B)

\* C11: delete_node(B) of a node B that is not the start node leaves
\* start_node_id unchanged and, in every remaining node, removes exactly the
\* choices whose target_id is B, the other choices staying in their order
\* (and every other field of the node as it was).
C11_DeleteOtherNode ==
    /\ \A B \in NodeKeys :
         B # story.start_node_id =>
            LET s2 == delete_node(story, B)
            IN  /\ s2.start_node_id = story.start_node_id
                /\ DOMAIN s2.nodes = NodeKeys \ {B}
                /\ \A k \in NodeKeys \ {B} :
                     s2.nodes[k] = [story.nodes[k] EXCEPT
                                       !.choices = NotLeadingTo(@, B)]
    /\ (last.op = "Delete" /\ last.start # last.arg) =>
            story.start_node_id = last.start

\* "Delete" has removed a node that was not the start node and that another
\* node led to; that node keeps a choice it had beside
C11_Witness ==
    /\ last.op = "Delete"
    /\ last.start # last.arg
    /\ last.n > 0
    /\ story.start_node_id = last.start
    /\ \E k \in NodeKeys : story.nodes[k].choices # <<>>

----------------------------------------------------------------------------
(* Properties of ingestion                                                 *)

\* a batch of two proto-nodes titled t1 and t2, the second with one choice
\* whose target_title is t1
PairBatch(t1, t2) ==
    [nodes |-> JList(<<
        [title |-> t1, text |-> "a"],
        [title |-> t2, text |-> "b",
         choices |-> << JObject([text |-> "back", target_title |-> t1]) >>] >>)]

\* titles an assistant may give a proto-node
PairTitles == {"Gate", "Yard", ""}

\* ingestion of PairBatch(t1, t2) into s creates two nodes and one choice,
\* owned by the second node and leading to the first
PairWired(s, base, t1, t2) ==
    LET r == apply_ai_nodes_to_story(s, PairBatch(t1, t2), base, None, None)
        first == Id(base + 1)
        second == Id(base + 2)
    IN  /\ r.raised = ""
        /\ DOMAIN r.story.nodes = (DOMAIN s.nodes) \cup {first, second}
        /\ r.story.nodes[first].choices = <<>>
        /\ Len(r.story.nodes[second].choices) = 1
        /\ r.story.nodes[second].choices[1].target_id = first
        /\ \A k \in DOMAIN s.nodes : r.story.nodes[k] = s.nodes[k]

\* C12: ingesting a batch of two proto-nodes with distinct titles, the second
\* with one choice whose target_title is the first's title, creates two
\* nodes and exactly one choice, owned by the second node, whose target_id
\* is the id of the node created for the first proto-node.
C12_PairIngestion ==
    \A t1 \in PairTitles, t2 \in PairTitles :
        t1 # t2 => PairWired(story, minted, t1, t2)

----------------------------------------------------------------------------
(* Operations given an id that is no key                                   *)

\* ids a caller may pass: every id the app can mint, and ids it never mints
AnyIds == {Id(k) : k \in 1..(MaxIds + 1)} \cup {"x", "zz", ""}

\* C13: delete_node with an id that is no key of nodes changes nothing and
\* does not fail; delete_node(x) applied twice gives the same story as
\* applied once.
C13_DeleteMissingNode ==
    \A x \in AnyIds :
        /\ x \notin NodeKeys => delete_node(story, x) = story
        /\ delete_node(delete_node(story, x), x) = delete_node(story, x)

C13_Witness ==
    /\ last.op = "Delete"
    /\ last.arg \in AnyIds \ NodeKeys
    /\ \E k \in NodeKeys : story.nodes[k].choices # <<>>
    /\ delete_node(story, last.arg) = story

\* C14: duplicate_node and Make Start given an id that is no key of nodes
\* fail (KeyError, the NotFound error) and leave the story (nodes, choices,
\* start_node_id) exactly as it was.
C14_MissingIdFails ==
    \A x \in AnyIds \ NodeKeys :
        /\ duplicate_node_raises(story, x)
        /\ duplicate_node(story, x, _new_id) = story
        /\ SetStartRaises(story, x)
        /\ SetStart(story, x) = story

\* batches whose "nodes" entry is missing, is no list, or is the empty list
InvalidBatches ==
    { [title |-> "Gate"],
      [nodes |-> JString("Gate")],
      [nodes |-> JObject([title |-> "Gate"])],
      [nodes |-> JList(<<>>)] }

\* C15: ingestion of a batch whose "nodes" entry is missing, not a list, or
\* an empty list fails with ValueError (InvalidBatch) and leaves the story
\* unchanged: no node created, no choice appended, start_node_id unchanged.
C15_InvalidBatch ==
    /\ \A data \in InvalidBatches, parent \in NodeKeys \cup {None} :
          LET r == apply_ai_nodes_to_story(story, data, minted, parent,
                       IF Falsy(parent) THEN None ELSE "Follow this thread")
          IN  /\ r.raised = "ValueError"
              /\ r.story = story
    /\ (last.op = "Ingest" /\ last.arg = "empty") =>
          /\ last.n = 0
          /\ story.start_node_id = last.start

C15_Witness ==
    /\ last.op = "Ingest"
    /\ last.arg = "empty"
    /\ last.n = 0
    /\ story.start_node_id = last.start
    /\ \E k \in NodeKeys : story.nodes[k].choices # <<>>

----------------------------------------------------------------------------
(* Further properties of playback                                          *)

\* C16: pressing the button of history entry i of "Path so far" (JumpTo)
\* truncates the history to its first i+1 entries, kept unchanged, including
\* any entry whose node no longer exists, and makes entry i the current
\* node.  (last.n counts the buttons from 1.)
C16_JumpTo ==
    [][last'.op = "JumpTo" =>
          /\ last'.n \in 1..Len(history)
          /\ history' = SubSeq(history, 1, last'.n)
          /\ current' = history[last'.n]]_vars

\* C17: "Restart" with the node picked in "Start at" (always a key of nodes)
\* sets the history to exactly that one id and the current node to it,
\* whatever the history was, and does not modify the story.
C17_Restart ==
    [][last'.op = "Restart" =>
          /\ last'.arg \in DOMAIN story.nodes
          /\ history' = <<last'.arg>>
          /\ current' = last'.arg
          /\ story' = story]_vars

C17_Witness ==
    /\ last.op = "Restart"
    /\ last.arg \in NodeKeys
    /\ last.arg # story.start_node_id
    /\ history = <<last.arg>>
    /\ current = last.arg

\* a story with its start_node_id replaced: None, "", an id of no node, or
\* any of its keys
StartVariants(st) ==
    {[st EXCEPT !.start_node_id = v] : v \in {None, "", "zz"} \cup DOMAIN st.nodes}

\* C18: when tab_playback runs on a non-empty story whose start_node_id is
\* None or no key of nodes (as decoded from a document with a missing or
\* dangling start_node_id), it repairs start_node_id to a key of nodes and
\* changes nothing else; a start_node_id that is a key is left as it is.
C18_StartRepair ==
    /\ \A base \in {story, story_from_json(DocFull), story_from_json(DocMalformed)} :
         \A st \in StartVariants(base) :
            st.order # <<>> =>
               LET p == PlaybackStart([Session EXCEPT !.story = st]).story
               IN  /\ p.start_node_id \in DOMAIN st.nodes
                   /\ p = [st EXCEPT !.start_node_id = p.start_node_id]
                   /\ st.start_node_id \in DOMAIN st.nodes => p = st
    /\ NodeKeys # {} => story.start_node_id \in NodeKeys

C18_Witness ==
    /\ last.op = "Upload"
    /\ up = "malformed.json"
    /\ story_from_json(Content(up)).start_node_id = None
    /\ NodeKeys = {"x"}
    /\ story.start_node_id = "x"

----------------------------------------------------------------------------
(* Further properties of the choice editor                                 *)

\* how often choice c occurs in a list of choices
Occurrences(choices, c) == Cardinality({j \in DOMAIN choices : choices[j] = c})

\* new is old with the entries at places i and i+1 exchanged
Exchanged(old, new, i) ==
    /\ DOMAIN new = DOMAIN old
    /\ new[i] = old[i + 1]
    /\ new[i + 1] = old[i]
    /\ \A j \in DOMAIN old : j \notin {i, i + 1} => new[j] = old[j]

\* C19: moving a choice never fails and never wraps: moving the first choice
\* up or the last choice down leaves the list as it is, every other move
\* exchanges the choice with its neighbour and nothing else; the list keeps
\* its length and the same choices, and no other node changes.
C19_ReorderChoice ==
    [][last'.op \in {"MoveUp", "MoveDown"} =>
          LET k == last'.arg
              i == last'.n
              old == story.nodes[k].choices
              new == story'.nodes[k].choices
          IN  /\ DOMAIN story'.nodes = DOMAIN story.nodes
              /\ i \in DOMAIN old
              /\ IF last'.op = "MoveUp"
                 THEN IF i = 1 THEN new = old ELSE Exchanged(old, new, i - 1)
                 ELSE IF i = Len(old) THEN new = old ELSE Exchanged(old, new, i)
              /\ Len(new) = Len(old)
              /\ \A j \in DOMAIN old :
                    Occurrences(new, old[j]) = Occurrences(old, old[j])
              /\ story' = [story EXCEPT !.nodes[k].choices = new]]_vars

C19_Witness ==
    /\ last.op = "MoveDown"
    /\ last.n = 1
    /\ last.arg \in NodeKeys
    /\ Len(story.nodes[last.arg].choices) = 2
    /\ story.nodes[last.arg].choices[1] # story.nodes[last.arg].choices[2]

\* the choices of s whose target_id is not empty and is no key of s
Broken(s) ==
    {ki \in ChoicesOf(s) :
        LET t == s.nodes[ki[1]].choices[ki[2]].target_id
        IN  t # "" /\ t \notin DOMAIN s.nodes}

\* C20: no operation other than deleting a node removes or rewrites a broken
\* choice: a choice whose target_id is not empty and is no key of nodes is
\* still there, with the same target_id, after every run of the script that
\* neither deletes a node nor replaces the story by an imported one.
C20_BrokenChoiceKept ==
    [][last'.op \notin {"Delete", "Upload"} =>
          \A ki \in Broken(story) :
              /\ ki \in ChoicesOf(story')
              /\ story'.nodes[ki[1]].choices[ki[2]] =
                     story.nodes[ki[1]].choices[ki[2]]]_vars

----------------------------------------------------------------------------
(* Further properties of ingestion                                         *)

\* every batch of the model
AllBatches == Batches \cup {"solo"}

\* the proto-nodes of a batch that passes the validation
ProtoNodes(data) == data.nodes.items

\* the ids the call mints for a batch: one per proto-node
CreatedBy(base, data) == {Id(base + j) : j \in 1..Drawn(data)}

\* no proto-node of the batch has a choice entry that is no object
AllDicts(data) ==
    \A j \in DOMAIN ProtoNodes(data) :
        LET ch_defs == Get(ProtoNodes(data)[j], "choices", <<>>)
        IN  \A c \in DOMAIN ch_defs : IsDict(ch_defs[c])

\* the call the "Apply" button makes with batch `name` and parent `parent`
Applied(name, parent) ==
    apply_ai_nodes_to_story(story, Batch(name), minted, parent,
                            IF Falsy(parent) THEN None ELSE "Follow this thread")

\* C21: every choice created by ingestion has a target_id that is "" or the
\* id of a node created by the same call; a target_title that is the title
\* of no proto-node of the batch (titles of nodes already in the story
\* included) gives "", never a dangling id, and never fails the batch.
C21_IngestTargets ==
    \A name \in AllBatches \ {"empty"}, parent \in AttachParents :
        LET r == Applied(name, parent)
        IN  /\ AllDicts(Batch(name)) => r.raised = ""
            /\ \A ki \in ChoicesOf(r.story) :
                  \/ /\ ki \in ChoicesOf(story)
                     /\ r.story.nodes[ki[1]].choices[ki[2]] =
                            story.nodes[ki[1]].choices[ki[2]]
                  \/ r.story.nodes[ki[1]].choices[ki[2]].target_id
                        \in {""} \cup CreatedBy(minted, Batch(name))

C21_Witness ==
    /\ last.op = "Ingest"
    /\ last.arg = "solo"
    /\ last.n = 1
    /\ \E k \in NodeKeys : story.nodes[k].title = "New Node"
    /\ \E k \in NodeKeys :
          /\ story.nodes[k].title = "Yard"
          /\ Len(story.nodes[k].choices) = 1
          /\ story.nodes[k].choices[1].text = "on"
          /\ story.nodes[k].choices[1].target_id = ""

\* C22: given the id of an existing node and a non-empty choice text,
\* ingestion appends exactly one choice to that node, and its target_id is
\* the id of the first node created in the first pass (the node made for
\* the batch's first proto-node), for every batch, batches with repeated
\* titles included.
C22_AttachFirstCreated ==
    \A name \in AllBatches \ {"empty"}, parent \in NodeKeys :
        AllDicts(Batch(name)) =>
            Applied(name, parent).story.nodes[parent].choices =
                Append(story.nodes[parent].choices,
                       Choice("Follow this thread", Id(minted + 1), <<>>, ""))

\* C23: ingestion returns the ids of all nodes it created, in creation
\* order: one entry per proto-node, entry j being the id of the node created
\* for proto-node j, for every batch, batches in which two proto-nodes share
\* a title included.
C23_ReturnedIds ==
    \A name \in AllBatches \ {"empty"}, parent \in AttachParents :
        AllDicts(Batch(name)) =>
            Applied(name, parent).new_ids =
                [j \in 1..Drawn(Batch(name)) |-> Id(minted + j)]

\* batches in which every choice entry is an object: the batches of the
\* model that are, and the two-node batches with a blank title
WellFormedBatches ==
    {Batch(name) : name \in {"pair", "twins", "solo"}}
        \cup {PairBatch(t[1], t[2]) : t \in {u \in PairTitles \X PairTitles : u[1] # u[2]}}

\* the texts of the choice entries listed in a proto-node
ListedTexts(nd) ==
    LET ch_defs == Get(nd, "choices", <<>>)
    IN  [c \in DOMAIN ch_defs |-> Get(ch_defs[c].fields, "text", "")]

\* C24: after ingestion the node created for each proto-node owns exactly
\* the choices listed in that proto-node, in the listed order (m listed
\* choices give m choices), for every batch, proto-nodes with a blank or
\* missing title and proto-nodes sharing a title included.
C24_ChoicesOwned ==
    \A data \in WellFormedBatches :
        LET r == apply_ai_nodes_to_story(story, data, minted, None, None)
        IN  \A j \in DOMAIN ProtoNodes(data) :
                LET made == r.story.nodes[Id(minted + j)].choices
                IN  [c \in DOMAIN made |-> made[c].text] =
                        ListedTexts(ProtoNodes(data)[j])

\* two titled proto-nodes, the first with a choice entry that is no object
\* ahead of a well-formed one
BatchTorn ==
    [nodes |-> JList(<<
        [title |-> "Gate",
         choices |-> << JString("oops"),
                        JObject([text |-> "on", target_title |-> "Yard"]) >>],
        [title |-> "Yard",
         choices |-> << JObject([text |-> "back", target_title |-> "Gate"]) >>] >>)]

\* the entries of a choice list that are objects
RECURSIVE OnlyDicts(_)
OnlyDicts(ch_defs) ==
    IF ch_defs = <<>> THEN <<>>
    ELSE IF IsDict(Head(ch_defs)) THEN <<Head(ch_defs)>> \o OnlyDicts(Tail(ch_defs))
    ELSE OnlyDicts(Tail(ch_defs))

\* C25: a choice entry that is no object never aborts node creation: after
\* the call every proto-node of the batch has a created node in the story,
\* the well-formed choices are wired, and the story still satisfies the
\* start-node invariant.
C25_MalformedChoice ==
    LET r == apply_ai_nodes_to_story(story, BatchTorn, minted, None, None)
        gate == Id(minted + 1)
        yard == Id(minted + 2)
    IN  /\ DOMAIN r.story.nodes = NodeKeys \cup {gate, yard}
        /\ StartOK(story) => StartOK(r.story)
        /\ \A j \in DOMAIN ProtoNodes(BatchTorn) :
              Len(r.story.nodes[Id(minted + j)].choices) =
                  Len(OnlyDicts(Get(ProtoNodes(BatchTorn)[j], "choices", <<>>)))
        /\ r.story.nodes[gate].choices[1].target_id = yard
        /\ r.story.nodes[yard].choices[1].target_id = gate

----------------------------------------------------------------------------
(* Properties of the graph projection                                      *)

\* how many edges of the list go from a to b
EdgeCount(edges, a, b) ==
    Cardinality({e \in DOMAIN edges : edges[e][1] = a /\ edges[e][2] = b})

\* how many choices of node a lead to b
ChoiceCount(s, a, b) ==
    Cardinality({c \in DOMAIN s.nodes[a].choices : s.nodes[a].choices[c].target_id = b})

\* ids a choice may lead to: the keys, "", and ids of no node
Targets == NodeKeys \cup {"", "zz"} \cup AnyIds

\* C26 as stated: the edge list has an edge (source, target) for a choice
\* exactly when the choice's target_id is a key of nodes: choices with an
\* empty or dangling target_id give no edge, every choice with an existing
\* target gives one edge from its owning node.
C26_EdgesAsStated ==
    \A q \in Queries :
        LET edges == Edges(story, q, Len(story.order))
        IN  \A a \in NodeKeys, b \in Targets :
                EdgeCount(edges, a, b) =
                    IF b \in NodeKeys THEN ChoiceCount(story, a, b) ELSE 0

\* C26, amended: the same, for the choices of the nodes that match the
\* search text: a choice gives an edge exactly when its target_id is a key
\* of nodes and its owning node matches the search text (every node
\* matches the empty search text); all edges come from choices.
C26_Edges ==
    \A q \in Queries :
        LET edges == Edges(story, q, Len(story.order))
        IN  /\ \A a \in NodeKeys, b \in Targets :
                  EdgeCount(edges, a, b) =
                      IF b \in NodeKeys /\ Shown(q, story.nodes[a])
                      THEN ChoiceCount(story, a, b) ELSE 0
            /\ \A e \in DOMAIN edges : edges[e][1] \in NodeKeys /\ edges[e][2] \in NodeKeys

C26_Witness ==
    /\ \E ki \in Broken(story) : Shown("pit", story.nodes[ki[1]])
    /\ \E ki \in ChoicesOf(story) \ Broken(story) : ~Shown("pit", story.nodes[ki[1]])
    /\ Len(Edges(story, "", Len(story.order))) = 1
    /\ Edges(story, "pit", Len(story.order)) = <<>>

----------------------------------------------------------------------------
(* Keys and ids                                                            *)

\* every key maps to a node whose id field is the key
KeyIsId(s) == \A k \in DOMAIN s.nodes : s.nodes[k].id = k

\* the ids _new_id() has handed out so far
Minted == {Id(j) : j \in 1..minted}

\* C27: from the empty story, after any sequence of add_node,
\* duplicate_node, delete_node and ingestion, every key k of nodes maps to a
\* node whose id field is k, and an id once removed by delete_node is never
\* given to a node created later: every key was minted, and a key that
\* appears in a step is an id not minted before that step.
C27_KeyIsId ==
    /\ [](/\ KeyIsId(story)
          /\ NodeKeys \subseteq Minted
          /\ \A a \in AddNodeArgs : KeyIsId(add_node(story, _new_id, a))
          /\ \A N \in NodeKeys :
                /\ KeyIsId(duplicate_node(story, N, _new_id))
                /\ KeyIsId(delete_node(story, N))
          /\ \A name \in AllBatches, parent \in AttachParents :
                KeyIsId(Applied(name, parent).story))
    /\ [][\A k \in (DOMAIN story'.nodes) \ NodeKeys : k \notin Minted]_vars

C27_Witness ==
    /\ last.op \in {"NewNode", "Duplicate", "Ingest"}
    /\ minted = 2
    /\ Id(1) \notin NodeKeys
    /\ NodeKeys = {Id(2)}
    /\ story.nodes[Id(2)].id = Id(2)

----------------------------------------------------------------------------
(* The uploader                                                            *)

\* C28: while the same uploaded file stays in the uploader the story is
\* replaced by the decoded document at most once, however many runs follow:
\* has_imported is set as long as the file is there, a run with the file
\* still there changes the story only by what its own button does (a plain
\* rerun changes nothing, a new node stays, a deleted node stays deleted, a
\* new start node stays), and has_imported is cleared only by a run that
\* finds the uploader empty.
C28_ImportOnce ==
    /\ [](up # None <=> has_imported)
    /\ [][(up # None /\ up' = up) =>
             /\ has_imported'
             /\ last'.op = "Rerun" => (story' = story /\ ui' = ui)
             /\ last'.op = "NewNode" =>
                   /\ DOMAIN story'.nodes = NodeKeys \cup {last'.arg}
                   /\ \A k \in NodeKeys : story'.nodes[k] = story.nodes[k]
             /\ last'.op = "Delete" =>
                   DOMAIN story'.nodes = NodeKeys \ {last'.arg}
             /\ last'.op = "MakeStart" => story'.start_node_id = last'.arg]_vars
    /\ [][(has_imported /\ ~has_imported') => up' = None]_vars

C28_Witness ==
    /\ up = "full.json"
    /\ has_imported
    /\ last.op = "NewNode"
    /\ NodeKeys = {"x", "y", last.arg}
    /\ story # story_from_json(Content(up))

----------------------------------------------------------------------------
(* End of branch                                                           *)

\* playback is at a node without choices, with more than one history entry
AtEndOfBranch ==
    /\ current \in NodeKeys
    /\ story.nodes[current].choices = <<>>
    /\ Len(history) > 1

\* C29: a node with no choices is no dead end for playback: when the current
\* node has an empty choice list and the history is longer than one entry,
\* "Step Back", "Restart" and the "Path so far" buttons (JumpTo to an
\* earlier history entry) are all still available.
C29_EndOfBranch ==
    AtEndOfBranch => (ENABLED StepBack /\ ENABLED Restart /\ ENABLED JumpTo)

----------------------------------------------------------------------------
(* Deletion and playback                                                   *)

\* the session after the current node is set to c and tab_playback has run
\* with `start_sel` picked in "Start at"
Evaluated(s, c, start_sel) ==
    PlaybackTab([Session EXCEPT !.story = s, !.ui.playback_node_id = c], start_sel)

\* C30: deleting a node interacts with playback by reset.  When the current
\* node is deleted (or current is otherwise empty or no key of nodes) while
\* the story stays non-empty, the next run of tab_playback sets the current
\* node to the node picked in "Start at" and the history to exactly that
\* node, whatever the history was; so after each run of tab_playback on a
\* non-empty story the current node is a key of nodes.
C30_DeleteResetsPlayback ==
    /\ [](/\ NodeKeys # {} => current \in NodeKeys
          /\ \A start_sel \in NodeKeys, c \in {None, "", "zz"} \cup (AnyIds \ NodeKeys) :
                /\ Evaluated(story, c, start_sel).ui.playback_node_id = start_sel
                /\ Evaluated(story, c, start_sel).ui.playback_history = <<start_sel>>
          /\ \A start_sel \in NodeKeys \ {current} :
                LET r == Evaluated(delete_node(story, current), current, start_sel)
                IN  /\ r.ui.playback_node_id = start_sel
                    /\ r.ui.playback_history = <<start_sel>>)
    /\ [][(last'.op = "Delete" /\ last'.arg = current /\ DOMAIN story'.nodes # {}) =>
             /\ current' \in DOMAIN story'.nodes
             /\ history' = <<current'>>]_vars

C30_Witness ==
    /\ Len(history) > 1
    /\ current \in NodeKeys
    /\ \E start_sel \in NodeKeys \ {current, story.start_node_id} :
          LET r == Evaluated(delete_node(story, current), current, start_sel)
          IN  /\ r.story.nodes # story.nodes
              /\ r.ui.playback_node_id = start_sel
              /\ r.ui.playback_history = <<start_sel>>

====
